---- MODULE Spec2Model ----
(***************************************************************************)
(* A model of python-rawtools: the Volume Converter (rawtools/convert.py:  *)
(* main, convert, scale, find_float_range) and the Slice Assembler         *)
(* (rawtools/nsihdr.py: main, read_nsihdr, set_initial_bounds, process,    *)
(* write_metadata).                                                        *)
(*                                                                         *)
(* Three specifications share the module:                                  *)
(*   Spec      batches of convert.main over a small file system            *)
(*   SpecScan  find_float_range run with chunk size N and with 2N          *)
(*   SpecNsi   batches of nsihdr.main over a small file system             *)
(*                                                                         *)
(* Files are sequences of samples.  A float32 sample is an integer of a    *)
(* small set on which the float arithmetic of scale is exact, or one of    *)
(* the two special values NaN and Inf.  rawtools/dat.py (read, write,      *)
(* determine_bit_depth, bitdepth) is not among the sources and is taken    *)
(* from the specification's description of these collaborators.            *)
(***************************************************************************)
EXTENDS Integers, Sequences, FiniteSets

(***************************************************************************)
(* Bounds of the model                                                     *)
(***************************************************************************)
\* largest xdim of a volume (ydim is 1, so a slice holds xdim samples)
MaxX == 2
\* largest zdim of a volume (number of slices, i.e. of chunks)
MaxZ == 2
\* contents of a volume are drawn from Content(enc, seed, n), seed in 0..MaxSeed
MaxSeed == 1
\* number of files the environment may have left at output paths beforehand
MaxForeign == 1
\* longest sample stream given to the range scanner
MaxLen == 4
\* largest chunk size N (in samples) of the range scanner; 2N is run beside it
MaxChunk == 2
\* largest number of slice files a project header names
MaxSlices == 2

(***************************************************************************)
(* Sample encodings and sample values                                      *)
(***************************************************************************)
\* the volumes of a batch (args.files after discovery)
Vols == {"a", "b"}

\* the encodings convert accepts (convert.py:153-170)
Supported == {"uint8", "uint16", "float32"}

\* values args.format may take; "int16" is an encoding convert does not support
Formats == Supported \cup {"int16"}

\* np.dtype(t).itemsize
itemsize(t) ==
  CASE t = "uint8" -> 1
    [] t = "uint16" -> 2
    [] t = "int16" -> 2
    [] t = "float32" -> 4
    [] OTHER -> 0

\* np.iinfo(np.dtype(t)).min of an unsigned type
iinfo_min(t) == 0

\* np.iinfo(np.dtype(t)).max of an unsigned type
iinfo_max(t) == 2 ^ (8 * itemsize(t)) - 1

\* np.finfo(float32).max: above every finite sample of the model
FloatMax == 2 ^ 29

\* the float special values (results of x/0, 0*inf and overflow)
Inf == FloatMax + 1

NaN == FloatMax + 2

\* the sample values volumes are filled with, per encoding
Vals(enc) ==
  CASE enc = "uint8" -> <<0, 255, 1, 128, 127, 254>>
    [] enc = "uint16" -> <<0, 65535, 128, 32768, 257, 256, 65534, 1>>
    [] OTHER -> <<-2, 2, 0>>

\* a file of n samples of encoding enc
Content(enc, seed, n) ==
  [i \in 1..n |-> Vals(enc)[((seed * n + i - 1) % Len(Vals(enc))) + 1]]

Min(S) == CHOOSE m \in S : \A e \in S : m <= e

Max(S) == CHOOSE m \in S : \A e \in S : m >= e

Range(s) == {s[i] : i \in 1..Len(s)}

(***************************************************************************)
(* State                                                                   *)
(***************************************************************************)
VARIABLES
  \* ---- convert: the file system
  raw,        \* raw[v]: the source volume, [width, data]
  dat,        \* dat[v]: the source DAT descriptor
  out,        \* out[v][f]: the output volume <v>-<f>.raw, [exists, data]
  outdat,     \* outdat[v][f]: the output descriptor <v>-<f>.dat
  \* ---- convert: the process
  mainPc,     \* "idle", "loop" (in the for loop of main), "raised"
  queue,      \* the volumes of the batch main has not yet passed to convert
  fmt,        \* args.format, the same in every invocation of main
  cvPc,       \* "none" or "stream" (convert is inside its with block)
  cur,        \* the volume of the current or last convert call
  cv,         \* the locals of the convert call in progress
  outcome,    \* how the last convert call ended
  produced,   \* history: produced[v][f], a convert call wrote <v>-<f>.raw in full
  partial,    \* history: partial[v][f], a convert call failed leaving it short
  \* ---- find_float_range with chunk sizes N and 2N
  stream,     \* the samples of the file
  chunkN,     \* N, in samples
  scanA,      \* the scanner with chunk size N
  scanB,      \* the scanner with chunk size 2N
  \* ---- nsihdr: the file system
  hdr,        \* hdr[h]: the parsed content of project header h
  nsiOut,     \* nsiOut[h]: the assembled volume <h>.raw
  nsiDat,     \* nsiDat[h]: the descriptor <h>.dat
  nsiRange,   \* nsiRange[h]: the range record <h>.float32.range
  \* ---- nsihdr: the process
  force,      \* args.force
  nsiPc,      \* "idle", "loop", "done", "raised", "exited"
  nsiQueue,   \* the headers of args.files main has not yet reached
  gInitial,   \* module globals INITIAL_LOWER_BOUND, INITIAL_UPPER_BOUND
  gTarget,    \* module globals TARGET_LOWER_BOUND, TARGET_UPPER_BOUND
  lInitial,   \* main's locals INITIAL_LOWER_BOUND, INITIAL_UPPER_BOUND
  nsiOutcome, \* how the last iteration of main's loop ended
  handled,    \* history: the headers main's loop has taken up in this run
  used        \* history: used[h], the ranges process rescaled h's slices with

cvVars == <<raw, dat, out, outdat, mainPc, queue, fmt, cvPc, cur, cv,
            outcome, produced, partial>>

scanVars == <<stream, chunkN, scanA, scanB>>

nsiVars == <<hdr, nsiOut, nsiDat, nsiRange, force, nsiPc, nsiQueue,
             gInitial, gTarget, lInitial, nsiOutcome, handled, used>>

vars == <<cvVars, scanVars, nsiVars>>

(***************************************************************************)
(* rawtools.dat, from the specification (section 6)                        *)
(***************************************************************************)
\* a path with no file behind it
NoFile == [exists |-> FALSE, data |-> <<>>]

NoDat ==
  [exists |-> FALSE, xdim |-> 0, ydim |-> 0, zdim |-> 0, thickness |-> 0,
   format |-> "none", model |-> "none"]

\* dat.write(fp, dimensions, thickness, dtype, model): the descriptor written
dat_write(x, y, z, thickness, dtype, model) ==
  [exists |-> TRUE, xdim |-> x, ydim |-> y, zdim |-> z, thickness |-> thickness,
   format |-> dtype, model |-> model]

\* determine_bit_depth(fp, (x, y, z)): the encoding whose byte width is the
\* file size divided by the voxel count; "unknown" when there is none
determine_bit_depth(file, d) ==
  LET size == file.width * Len(file.data)
      n == d.xdim * d.ydim * d.zdim
  IN  IF size = n THEN "uint8"
      ELSE IF size = 2 * n THEN "uint16"
      ELSE IF size = 4 * n THEN "float32"
      ELSE "unknown"

(***************************************************************************)
(* convert.py: find_float_range                                            *)
(***************************************************************************)
\* the locals of find_float_range before its loop (convert.py:99-100)
ScanInit ==
  [pos |-> 0, minimum |-> FloatMax, maximum |-> -FloatMax, done |-> FALSE]

\* ifp.read(buffer_size), n samples from position pos (convert.py:108,116)
ReadChunk(data, pos, n) ==
  SubSeq(data, pos + 1, IF pos + n > Len(data) THEN Len(data) ELSE pos + n)

\* chunk.min() with the first sample standing for the chunk
chunk_min_first(chunk) == chunk[1]

\* chunk.min() (convert.py:112)
chunk_min(chunk) == Min(Range(chunk))

\* chunk.max() (convert.py:114)
chunk_max(chunk) == Max(Range(chunk))

\* one read and one pass of the while loop (convert.py:108-117); the loop
\* ends on the first empty buffer
ScanStep(s, data, n) ==
  LET buffer == ReadChunk(data, s.pos, n)
  IN  IF buffer = <<>>
      THEN [s EXCEPT !.done = TRUE]
      ELSE [pos |-> s.pos + Len(buffer),
            minimum |-> IF chunk_min(buffer) < s.minimum
                        THEN chunk_min(buffer) ELSE s.minimum,
            maximum |-> IF chunk_max(buffer) > s.maximum
                        THEN chunk_max(buffer) ELSE s.maximum,
            done |-> FALSE]

RECURSIVE ScanAll(_, _, _)
ScanAll(s, data, n) ==
  IF s.done THEN s ELSE ScanAll(ScanStep(s, data, n), data, n)

\* find_float_range(fp, buffer_size = 4 * n): (minimum, maximum)
find_float_range(data, n) ==
  LET s == ScanAll(ScanInit, data, n) IN <<s.minimum, s.maximum>>

(***************************************************************************)
(* convert.py: scale, and the cast that follows it                         *)
(***************************************************************************)
\* (x - a) / (b - a) * (d - c + 1) + c: the output range taken one too wide
scale_wide(x, a, b, c, d) ==
  IF b = a
  THEN [kind |-> IF x = a THEN "nan" ELSE "inf", num |-> 0, den |-> 1]
  ELSE IF d - c > FloatMax
  THEN [kind |-> IF x = a THEN "nan" ELSE "inf", num |-> 0, den |-> 1]
  ELSE [kind |-> "fin", num |-> (x - a) * (d - c + 1) + c * (b - a), den |-> b - a]

\* scale(x, a, b, c, d) = (x - a) / (b - a) * (d - c) + c in float arithmetic:
\* a finite value num/den, or nan (0/0, 0*inf), or inf (x/0, x*inf).
\* With c, d the float32 limits d - c overflows to inf (convert.py:167-168).
scale(x, a, b, c, d) ==
  IF b = a
  THEN [kind |-> IF x = a THEN "nan" ELSE "inf", num |-> 0, den |-> 1]
  ELSE IF d - c > FloatMax
  THEN [kind |-> IF x = a THEN "nan" ELSE "inf", num |-> 0, den |-> 1]
  ELSE [kind |-> "fin", num |-> (x - a) * (d - c) + c * (b - a), den |-> b - a]

\* truncation toward zero of num/den, den > 0
Trunc(num, den) == IF num >= 0 THEN num \div den ELSE -((-num) \div den)

\* the samples a cast of nan or inf to an unsigned type may give (the C
\* conversion is undefined: builds give 0 or saturate)
NanCast(t) == {0, iinfo_max(t)}

\* .astype(t) of a scaled value: the set of samples the cast may give
astype(q, t) ==
  IF t = "float32"
  THEN (IF q.kind = "nan" THEN {NaN}
        ELSE IF q.kind = "inf" THEN {Inf}
        ELSE {Trunc(q.num, q.den)})
  ELSE (IF q.kind = "fin" THEN {Trunc(q.num, q.den)} ELSE NanCast(t))

\* scale(chunk, a, b, c, d).astype(t): the chunks that may be written
ScaledChunks(chunk, a, b, c, d, t) ==
  LET may(i) == astype(scale(chunk[i], a, b, c, d), t)
  IN  {s \in [1..Len(chunk) -> UNION {may(i) : i \in 1..Len(chunk)}] :
         \A i \in 1..Len(chunk) : s[i] \in may(i)}

(***************************************************************************)
(* convert.py: the file system convert.main starts from                    *)
(***************************************************************************)
\* thickness and object model of a volume's DAT file
ThicknessOf(v) == IF v = "a" THEN 1 ELSE 2

\* a volume of x*1*z samples of encoding enc with the DAT file that fits it
GoodVolume(v, enc, x, z, seed) ==
  [raw |-> [width |-> itemsize(enc), data |-> Content(enc, seed, x * z)],
   dat |-> dat_write(x, 1, z, ThicknessOf(v), enc, "DENSITY")]

\* a volume whose DAT file is missing
MissingDat(v) ==
  [raw |-> [width |-> 1, data |-> Content("uint8", 0, 1)], dat |-> NoDat]

\* a volume of 3 bytes whose DAT file declares 2 voxels: no encoding fits
BadDims(v) ==
  [raw |-> [width |-> 1, data |-> Content("uint8", 0, 3)],
   dat |-> dat_write(2, 1, 1, ThicknessOf(v), "uint8", "DENSITY")]

\* volume "a" is any volume of the bounds; volume "b", the rest of the batch,
\* is one of three
VolumeInputs(v) ==
  IF v = "a"
  THEN {GoodVolume(v, enc, x, z, seed) :
          enc \in Supported, x \in 1..MaxX, z \in 1..MaxZ, seed \in 0..MaxSeed}
       \cup {MissingDat(v), BadDims(v)}
  ELSE {GoodVolume(v, "uint8", 1, 2, 0), GoodVolume(v, "float32", 1, 1, 0),
        MissingDat(v)}

\* a file some earlier tool left at an output path
ForeignFile == [exists |-> TRUE, data |-> <<>>]

\* the locals of convert outside a call (buffer_size is held in samples:
\* x * y * itemsize bytes are x * y samples of the source encoding)
NoJob ==
  [bit_depth |-> "none", d |-> NoDat, buffer_size |-> 0, pos |-> 0,
   input_minimum |-> 0, input_maximum |-> 0,
   output_minimum |-> 0, output_maximum |-> 0]

InitConvert ==
  /\ \E in \in [Vols -> UNION {VolumeInputs(v) : v \in Vols}] :
       /\ \A v \in Vols : in[v] \in VolumeInputs(v)
       /\ raw = [v \in Vols |-> in[v].raw]
       /\ dat = [v \in Vols |-> in[v].dat]
  /\ fmt \in Formats
  /\ \E F \in {S \in SUBSET Vols : Cardinality(S) <= MaxForeign} :
       out = [v \in Vols |-> [f \in Formats |->
                IF v \in F /\ f = fmt THEN ForeignFile ELSE NoFile]]
  /\ outdat = [v \in Vols |-> [f \in Formats |-> NoDat]]
  /\ mainPc = "idle"
  /\ queue = <<>>
  /\ cvPc = "none"
  /\ cur = "a"
  /\ cv = NoJob
  /\ outcome = "none"
  /\ produced = [v \in Vols |-> [f \in Formats |-> FALSE]]
  /\ partial = [v \in Vols |-> [f \in Formats |-> FALSE]]

\* the other machines at rest
IdleConvert ==
  /\ raw = [v \in Vols |-> [width |-> 1, data |-> <<>>]]
  /\ dat = [v \in Vols |-> NoDat]
  /\ out = [v \in Vols |-> [f \in Formats |-> NoFile]]
  /\ outdat = [v \in Vols |-> [f \in Formats |-> NoDat]]
  /\ mainPc = "idle"
  /\ queue = <<>>
  /\ fmt = "uint8"
  /\ cvPc = "none"
  /\ cur = "a"
  /\ cv = NoJob
  /\ outcome = "none"
  /\ produced = [v \in Vols |-> [f \in Formats |-> FALSE]]
  /\ partial = [v \in Vols |-> [f \in Formats |-> FALSE]]

(***************************************************************************)
(* convert.py: main and convert                                            *)
(***************************************************************************)
\* the orders list(set(args.files)) may give the volumes (convert.py:32)
BatchOrders == {q \in [1..Cardinality(Vols) -> Vols] : Range(q) = Vols}

\* a new process runs main(args) up to its for loop (convert.py:14-56)
convert_main ==
  /\ mainPc \in {"idle", "raised"}
  /\ cvPc = "none"
  /\ \E q \in BatchOrders : queue' = q
  /\ mainPc' = "loop"
  /\ UNCHANGED <<raw, dat, out, outdat, fmt, cvPc, cur, cv, outcome, produced,
                 partial>>

\* the base case never taken
AlreadyDesiredNever(file_format, bit_depth) == FALSE

\* the base case of convert: file_format == bit_depth (convert.py:138)
AlreadyDesired(file_format, bit_depth) == file_format = bit_depth

\* the existence test never true
OutputExistsNever(file) == FALSE

\* os.path.exists(op) (convert.py:144)
OutputExists(file) == file.exists

\* input_minimum, input_maximum of a supported encoding (convert.py:153-158)
InputRange(bit_depth, data, n) ==
  IF bit_depth \in {"uint8", "uint16"}
  THEN <<iinfo_min(bit_depth), iinfo_max(bit_depth)>>
  ELSE find_float_range(data, n)

\* every output format let through
OutputSupportedAlways(file_format) == TRUE

\* the formats the output scale is defined for (convert.py:163-170)
OutputSupported(file_format) == file_format \in {"uint8", "uint16", "float32"}

\* output_minimum, output_maximum (convert.py:163-168)
OutputRange(file_format) ==
  IF file_format = "float32"
  THEN <<-FloatMax, FloatMax>>
  ELSE <<iinfo_min(file_format), iinfo_max(file_format)>>

\* convert returns to main's loop without having written (convert.py:140,146)
Return(how) ==
  /\ outcome' = how
  /\ UNCHANGED <<out, mainPc, cvPc, cv>>

\* convert raises; nothing in main catches it (convert.py:57-61)
Raise(kind) ==
  /\ outcome' = kind
  /\ mainPc' = "raised"
  /\ UNCHANGED <<out, cvPc, cv>>

\* main passes the next volume to convert; convert up to the opening of its
\* files (convert.py:57-60, 129-175)
convert_call ==
  /\ mainPc = "loop"
  /\ cvPc = "none"
  /\ queue # <<>>
  /\ LET fp == Head(queue)
         d == dat[fp]
         bit_depth == determine_bit_depth(raw[fp], d)
         n == d.xdim * d.ydim
         ir == InputRange(bit_depth, raw[fp].data, n)
         or == OutputRange(fmt)
     IN  /\ cur' = fp
         /\ queue' = Tail(queue)
         /\ IF ~d.exists THEN Raise("MetadataError")
            ELSE IF bit_depth = "unknown" THEN Raise("UnknownEncoding")
            ELSE IF AlreadyDesired(fmt, bit_depth) THEN Return("noop")
            ELSE IF OutputExists(out[fp][fmt]) THEN Return("skip_exists")
            ELSE IF bit_depth \notin Supported THEN Raise("UnsupportedEncoding")
            ELSE IF ~OutputSupported(fmt) THEN Raise("UnsupportedEncoding")
            ELSE /\ out' = [out EXCEPT ![fp][fmt] = [exists |-> TRUE, data |-> <<>>]]
                 /\ cvPc' = "stream"
                 /\ cv' = [bit_depth |-> bit_depth, d |-> d, buffer_size |-> n,
                           pos |-> 0,
                           input_minimum |-> ir[1], input_maximum |-> ir[2],
                           output_minimum |-> or[1], output_maximum |-> or[2]]
                 /\ UNCHANGED <<mainPc, outcome>>
  /\ UNCHANGED <<raw, dat, outdat, fmt, produced, partial>>

\* one pass of the while loop: a chunk is scaled and appended (convert.py:177-187)
convert_chunk ==
  /\ cvPc = "stream"
  /\ cv.pos < Len(raw[cur].data)
  /\ LET chunk == ReadChunk(raw[cur].data, cv.pos, cv.buffer_size)
     IN  /\ \E sdf \in ScaledChunks(chunk, cv.input_minimum, cv.input_maximum,
                                    cv.output_minimum, cv.output_maximum, fmt) :
               out' = [out EXCEPT ![cur][fmt].data = @ \o sdf]
         /\ cv' = [cv EXCEPT !.pos = @ + Len(chunk)]
  /\ UNCHANGED <<raw, dat, outdat, mainPc, queue, fmt, cvPc, cur, outcome,
                 produced, partial>>

\* the buffer is empty: the files are closed and the DAT file of the converted
\* volume is written (convert.py:188-192)
convert_finish ==
  /\ cvPc = "stream"
  /\ cv.pos >= Len(raw[cur].data)
  /\ outdat' = [outdat EXCEPT ![cur][fmt] =
       dat_write(cv.d.xdim, cv.d.ydim, cv.d.zdim, cv.d.thickness, fmt, cv.d.model)]
  /\ produced' = [produced EXCEPT ![cur][fmt] = TRUE]
  /\ cvPc' = "none"
  /\ cv' = NoJob
  /\ outcome' = "ok"
  /\ UNCHANGED <<raw, dat, out, mainPc, queue, fmt, cur, partial>>

\* a read or a write inside the with block raises OSError: the files are
\* closed as they are and the exception leaves convert and main
\* (convert.py:175-188)
convert_io_error ==
  /\ cvPc = "stream"
  /\ partial' = [partial EXCEPT ![cur][fmt] =
       Len(out[cur][fmt].data) < cv.d.xdim * cv.d.ydim * cv.d.zdim]
  /\ cvPc' = "none"
  /\ cv' = NoJob
  /\ outcome' = "IoError"
  /\ mainPc' = "raised"
  /\ UNCHANGED <<raw, dat, out, outdat, queue, fmt, cur, produced>>

\* the for loop of main is exhausted (convert.py:62-64)
convert_main_done ==
  /\ mainPc = "loop"
  /\ cvPc = "none"
  /\ queue = <<>>
  /\ mainPc' = "idle"
  /\ UNCHANGED <<raw, dat, out, outdat, queue, fmt, cvPc, cur, cv, outcome,
                 produced, partial>>

(***************************************************************************)
(* find_float_range with chunk size N beside chunk size 2N                 *)
(***************************************************************************)
\* the finite float32 samples of the model
FloatSet == Range(Vals("float32"))

InitScan ==
  /\ stream \in UNION {[1..n -> FloatSet] : n \in 1..MaxLen}
  /\ chunkN \in 1..MaxChunk
  /\ scanA = ScanInit
  /\ scanB = ScanInit

IdleScan ==
  /\ stream = <<>>
  /\ chunkN = 1
  /\ scanA = ScanInit
  /\ scanB = ScanInit

\* find_float_range(fp, buffer_size = 4 * N): one read and pass of its loop
scan_N ==
  /\ ~scanA.done
  /\ scanA' = ScanStep(scanA, stream, chunkN)
  /\ UNCHANGED <<stream, chunkN, scanB>>

\* find_float_range(fp, buffer_size = 8 * N): one read and pass of its loop
scan_2N ==
  /\ ~scanB.done
  /\ scanB' = ScanStep(scanB, stream, 2 * chunkN)
  /\ UNCHANGED <<stream, chunkN, scanA>>

(***************************************************************************)
(* nsihdr.py: the file system nsihdr.main starts from                      *)
(***************************************************************************)
\* the project headers of a batch (args.files)
Hdrs == {"h1", "h2"}

\* None, for a pair of bounds
None == [set |-> FALSE, lower |-> 0, upper |-> 0]

Bounds(lo, hi) == [set |-> TRUE, lower |-> lo, upper |-> hi]

\* the <DataRange> lines a header may carry
DeclaredRanges == {None, Bounds(-2, 2), Bounds(-4, 4)}

\* the slice file <name>.nsidat: two float32 samples
SliceFile(name) == Content("float32", name, 2)

\* the orders in which a header may list k slice files
SliceLists == UNION {{q \in [1..k -> 1..k] : Range(q) = 1..k} : k \in 1..MaxSlices}

\* what read_nsihdr finds in a header: the <Name> lines in the header's
\* order, <bit depth> and <DataRange> (nsihdr.py:65-102)
HeaderInputs ==
  [names : SliceLists, bit_depth : {8, 16}, data_range : DeclaredRanges]

\* a volume left by an earlier run
OldVolume == [exists |-> TRUE, data |-> <<7, 7, 7>>]

\* no range record
NoRange == [exists |-> FALSE, lower |-> 0, upper |-> 0]

\* process has not rescaled the header's slices
NotUsed == [set |-> FALSE, initial |-> None, target |-> None]

\* main's locals INITIAL_LOWER_BOUND, INITIAL_UPPER_BOUND before any
\* assignment to them
Unbound == [bound |-> FALSE, value |-> None]

InitNsi ==
  /\ hdr \in [Hdrs -> HeaderInputs]
  /\ nsiOut \in [Hdrs -> {NoFile, OldVolume}]
  /\ nsiDat = [h \in Hdrs |-> NoDat]
  /\ nsiRange = [h \in Hdrs |-> NoRange]
  /\ force = FALSE
  /\ nsiPc = "idle"
  /\ nsiQueue = <<>>
  /\ gInitial = None
  /\ gTarget = None
  /\ lInitial = Unbound
  /\ nsiOutcome = "none"
  /\ handled = {}
  /\ used = [h \in Hdrs |-> NotUsed]

IdleNsi ==
  /\ hdr = [h \in Hdrs |-> [names |-> <<1>>, bit_depth |-> 16, data_range |-> None]]
  /\ nsiOut = [h \in Hdrs |-> NoFile]
  /\ nsiDat = [h \in Hdrs |-> NoDat]
  /\ nsiRange = [h \in Hdrs |-> NoRange]
  /\ force = FALSE
  /\ nsiPc = "idle"
  /\ nsiQueue = <<>>
  /\ gInitial = None
  /\ gTarget = None
  /\ lInitial = Unbound
  /\ nsiOutcome = "none"
  /\ handled = {}
  /\ used = [h \in Hdrs |-> NotUsed]

(***************************************************************************)
(* nsihdr.py: read_nsihdr, set_initial_bounds, process, write_metadata     *)
(***************************************************************************)
\* nsidats.sort() (nsihdr.py:113)
Sorted(q) ==
  CHOOSE s \in [1..Len(q) -> Range(q)] :
    /\ Range(s) = Range(q)
    /\ \A i \in 1..Len(q) - 1 : s[i] < s[i + 1]

\* the metadata read_nsihdr returns (nsihdr.py:115-127): the sorted slice
\* files, the bit depth and the dimensions [x, z, num_slices] of slices of
\* two samples
read_nsihdr(h) ==
  [datafiles |-> Sorted(hdr[h].names), bit_depth |-> hdr[h].bit_depth,
   dimensions |-> <<2, Len(hdr[h].names), 1>>]

\* the module globals INITIAL_*_BOUND after read_nsihdr, which declares them
\* global and assigns them on a <DataRange> line (nsihdr.py:59-60, 99-102)
GlobalsAfterRead(h, g) ==
  IF hdr[h].data_range.set THEN hdr[h].data_range ELSE g

\* the conflict test that lets every existing file pass
OutputConflictNever(file, fo) == FALSE

\* main's test of the output path: the file exists and creation is not
\* forced (nsihdr.py:212-216)
OutputConflict(file, fo) == file.exists /\ fo = FALSE

RECURSIVE ScanFiles(_, _)
\* set_initial_bounds over the slice files (nsihdr.py:139-156)
ScanFiles(files, g) ==
  IF files = <<>> THEN g
  ELSE LET df == SliceFile(Head(files))
           lo == IF g.set THEN Min({g.lower, Min(Range(df))}) ELSE Min(Range(df))
           hi == IF g.set THEN Max({g.upper, Max(Range(df))}) ELSE Max(Range(df))
       IN  ScanFiles(Tail(files), Bounds(lo, hi))

RECURSIVE Assemble(_, _, _)
\* the for loop of process: each slice scaled, cast to uint16 and appended
\* (nsihdr.py:184-193); with gi.lower < gi.upper the cast has one result
Assemble(files, gi, gt) ==
  IF files = <<>> THEN <<>>
  ELSE LET df == SliceFile(Head(files))
       IN  [i \in 1..Len(df) |->
              Min(astype(scale(df[i], gi.lower, gi.upper, gt.lower, gt.upper),
                         "uint16"))]
           \o Assemble(Tail(files), gi, gt)

\* process(args, metadata) with the module globals gi = INITIAL_*_BOUND and
\* gt = TARGET_*_BOUND: how it ends and the volume file it leaves
\* (nsihdr.py:159-194)
process(md, file, fo, gi, gt) ==
  IF OutputConflict(file, fo)
  THEN [outcome |-> "AlreadyExists", file |-> file]
  ELSE IF ~gi.set \/ ~gt.set
  THEN [outcome |-> "TypeError", file |-> NoFile]
  ELSE [outcome |-> "ok",
        file |-> [exists |-> TRUE, data |-> Assemble(md.datafiles, gi, gt)]]

\* the range record write_metadata writes from the module globals
\* (nsihdr.py:44-48)
write_metadata_range(gi) ==
  [exists |-> TRUE, lower |-> gi.lower, upper |-> gi.upper]

(***************************************************************************)
(* nsihdr.py: main                                                         *)
(***************************************************************************)
\* the lists of headers main may be given
Batches ==
  UNION {{q \in [1..k -> Hdrs] : \A i, j \in 1..k : q[i] = q[j] => i = j} :
           k \in 0..Cardinality(Hdrs)}

\* a new process runs main(args): the module globals are None
\* (nsihdr.py:16-19) and main's locals are unbound (nsihdr.py:196-198)
nsihdr_main(files, fo) ==
  /\ nsiPc # "loop"
  /\ nsiQueue' = files
  /\ force' = fo
  /\ nsiPc' = IF files = <<>> THEN "done" ELSE "loop"
  /\ gInitial' = None
  /\ gTarget' = None
  /\ lInitial' = Unbound
  /\ nsiOutcome' = "none"
  /\ handled' = {}
  /\ used' = [h \in Hdrs |-> NotUsed]
  /\ UNCHANGED <<hdr, nsiOut, nsiDat, nsiRange>>

\* the iteration ends in an exception or in sys.exit: main is left
Leave(how, pc) ==
  /\ nsiOutcome' = how
  /\ nsiPc' = pc
  /\ UNCHANGED <<nsiOut, nsiDat, nsiRange, lInitial, used>>

\* one iteration of main's for loop (nsihdr.py:198-239).  TARGET_*_BOUND and
\* INITIAL_*_BOUND are assigned in main without a global declaration
\* (nsihdr.py:207-208, 236-239), so in main they are locals: the test of
\* line 222 reads a local that is unbound until line 236 has run, and
\* process reads module globals that main never assigns.
nsihdr_iter ==
  /\ nsiPc = "loop"
  /\ nsiQueue # <<>>
  /\ LET h == Head(nsiQueue)
         md == read_nsihdr(h)
         g1 == GlobalsAfterRead(h, gInitial)
         g2 == ScanFiles(md.datafiles, g1)
         r == process(md, nsiOut[h], force, g1, gTarget)
     IN  /\ handled' = handled \cup {h}
         /\ nsiQueue' = Tail(nsiQueue)
         /\ IF OutputConflict(nsiOut[h], force)
            THEN \* sys.exit(0), line 216: SystemExit is no Exception
                 /\ gInitial' = g1
                 /\ Leave("AlreadyExists", "exited")
            ELSE IF ~lInitial.bound
            THEN \* line 222 reads the unbound local
                 /\ gInitial' = g1
                 /\ Leave("UnboundLocalError", "raised")
            ELSE IF ~lInitial.value.set
            THEN \* set_initial_bounds reads args, no name of its scope
                 \* (nsihdr.py:141)
                 /\ gInitial' = g2
                 /\ Leave("NameError", "raised")
            ELSE IF r.outcome # "ok"
            THEN /\ gInitial' = g1
                 /\ nsiOut' = [nsiOut EXCEPT ![h] = r.file]
                 /\ nsiOutcome' = r.outcome
                 /\ nsiPc' = IF r.outcome = "AlreadyExists" THEN "exited" ELSE "raised"
                 /\ UNCHANGED <<nsiDat, nsiRange, lInitial, used>>
            ELSE /\ gInitial' = g1
                 /\ nsiOut' = [nsiOut EXCEPT ![h] = r.file]
                 /\ used' = [used EXCEPT ![h] =
                               [set |-> TRUE, initial |-> g1, target |-> gTarget]]
                 /\ \* write_metadata passes dimensions and resolution only
                    \* (nsihdr.py:39)
                    nsiDat' = [nsiDat EXCEPT ![h] =
                      dat_write(md.dimensions[1], md.dimensions[2], md.dimensions[3],
                                1, "default", "default")]
                 /\ nsiRange' = [nsiRange EXCEPT ![h] = write_metadata_range(g1)]
                 /\ lInitial' = [bound |-> TRUE, value |-> None]
                 /\ nsiOutcome' = "ok"
                 /\ nsiPc' = IF Tail(nsiQueue) = <<>> THEN "done" ELSE "loop"
  /\ UNCHANGED <<hdr, force, gTarget>>

(***************************************************************************)
(* Specifications                                                          *)
(***************************************************************************)
Init == InitConvert /\ IdleScan /\ IdleNsi

Next ==
  \/ convert_main /\ UNCHANGED <<scanVars, nsiVars>>
  \/ convert_call /\ UNCHANGED <<scanVars, nsiVars>>
  \/ convert_chunk /\ UNCHANGED <<scanVars, nsiVars>>
  \/ convert_finish /\ UNCHANGED <<scanVars, nsiVars>>
  \/ convert_io_error /\ UNCHANGED <<scanVars, nsiVars>>
  \/ convert_main_done /\ UNCHANGED <<scanVars, nsiVars>>

Spec == Init /\ [][Next]_vars

NextScan ==
  \/ scan_N /\ UNCHANGED <<cvVars, nsiVars>>
  \/ scan_2N /\ UNCHANGED <<cvVars, nsiVars>>

InitS == IdleConvert /\ InitScan /\ IdleNsi

SpecScan == InitS /\ [][NextScan]_vars

NextNsi ==
  \/ (\E files \in Batches, fo \in BOOLEAN : nsihdr_main(files, fo))
       /\ UNCHANGED <<cvVars, scanVars>>
  \/ nsihdr_iter /\ UNCHANGED <<cvVars, scanVars>>

InitN == IdleConvert /\ IdleScan /\ InitNsi

SpecNsi == InitN /\ [][NextNsi]_vars

(***************************************************************************)
(* Properties of the Volume Converter (specification Spec)                 *)
(***************************************************************************)
\* the encoding convert infers for volume v
EncodingOf(v) == determine_bit_depth(raw[v], dat[v])

\* C1: Never-clobber.  A convert call on a volume and target encoding for
\* which an earlier call has produced the output volume leaves every output
\* volume and every output DAT file as it was, returns as a skip and raises
\* nothing.
NeverClobber ==
  [][(convert_call /\ produced[Head(queue)][fmt])
       => /\ out' = out
          /\ outdat' = outdat
          /\ outcome' = "skip_exists"
          /\ mainPc' = "loop"]_vars

\* a second call has met the output volume the first call produced
NeverClobberWitness ==
  /\ outcome = "skip_exists"
  /\ mainPc = "loop"
  /\ produced[cur][fmt]
  /\ Len(out[cur][fmt].data) = Len(raw[cur].data)

\* C2: once convert has run to completion on a volume of x*y*z samples of an
\* unsigned encoding with an unsigned target encoding, the output volume
\* holds x*y*z samples, sample i being input sample i rescaled from the
\* natural range of the source to that of the target (257*v from uint8 to
\* uint16), and the new DAT file carries the dimensions, thickness and object
\* model of the source with the target encoding.
UnsignedRescale ==
  \A v \in Vols, f \in {"uint8", "uint16"} :
    (produced[v][f] /\ EncodingOf(v) \in {"uint8", "uint16"})
      => /\ Len(out[v][f].data) = dat[v].xdim * dat[v].ydim * dat[v].zdim
         /\ \A i \in 1..Len(raw[v].data) :
              /\ out[v][f].data[i]
                   = (raw[v].data[i] * iinfo_max(f)) \div iinfo_max(EncodingOf(v))
              /\ (EncodingOf(v) = "uint8" /\ f = "uint16")
                   => out[v][f].data[i] = 257 * raw[v].data[i]
         /\ outdat[v][f] = [dat[v] EXCEPT !.format = f]

\* a uint8 volume of several slices has been converted to uint16
UnsignedRescaleWitness ==
  \E v \in Vols :
    /\ produced[v]["uint16"]
    /\ EncodingOf(v) = "uint8"
    /\ dat[v].zdim > 1
    /\ \E i \in 1..Len(raw[v].data) : out[v]["uint16"].data[i] = 65535

\* C6: batch independence.  When main has ended, normally or by an
\* exception, every volume of the batch has been passed to convert.
BatchIndependence == mainPc \in {"idle", "raised"} => queue = <<>>

\* C7: a convert call whose target encoding equals the encoding inferred for
\* the volume creates and modifies no file and returns normally, whether or
\* not a file exists at the output path of that target.
SameEncodingNoOp ==
  [][(/\ convert_call
      /\ dat[Head(queue)].exists
      /\ EncodingOf(Head(queue)) = fmt)
       => /\ out' = out
          /\ outdat' = outdat
          /\ outcome' = "noop"
          /\ mainPc' = "loop"]_vars

\* a call was a no-op although a file exists at its output path
SameEncodingNoOpWitness ==
  /\ outcome = "noop"
  /\ mainPc = "loop"
  /\ EncodingOf(cur) = fmt
  /\ out[cur][fmt].exists

\* C8 as claimed: every convert call (on readable metadata) whose source or
\* target encoding is not one of uint8, uint16, float32 ends in an
\* unsupported-encoding error with no output volume or DAT file created.
UnsupportedAlwaysRaises ==
  [][(/\ convert_call
      /\ dat[Head(queue)].exists
      /\ (fmt \notin Supported \/ EncodingOf(Head(queue)) \notin Supported))
       => /\ out' = out
          /\ outdat' = outdat
          /\ outcome' \in {"UnsupportedEncoding", "UnknownEncoding"}]_vars

\* C8: a convert call that reaches the encoding checks (readable metadata,
\* source encoding inferred) with a target encoding that is not one of
\* uint8, uint16, float32 creates no output volume and no output DAT file;
\* it ends in an UnsupportedEncoding error unless a file already exists at
\* the output path, in which case it returns as a skip.
UnsupportedTargetWritesNothing ==
  [][(/\ convert_call
      /\ dat[Head(queue)].exists
      /\ EncodingOf(Head(queue)) \in Supported
      /\ fmt \notin Supported)
       => /\ out' = out
          /\ outdat' = outdat
          /\ outcome' = IF out[Head(queue)][fmt].exists
                        THEN "skip_exists" ELSE "UnsupportedEncoding"
          /\ mainPc' = IF out[Head(queue)][fmt].exists THEN "loop" ELSE "raised"]_vars

\* a call with an unsupported target encoding has raised
UnsupportedTargetWitness ==
  /\ outcome = "UnsupportedEncoding"
  /\ mainPc = "raised"
  /\ fmt \notin Supported
  /\ EncodingOf(cur) \in Supported
  /\ ~out[cur][fmt].exists

\* C10: a partial output volume never looks done.  No convert call is
\* skipped as "already exists" on an output volume that a failed call left
\* short.
PartialNeverLooksDone ==
  ~(/\ outcome = "skip_exists"
    /\ partial[cur][fmt]
    /\ Len(out[cur][fmt].data) < Len(raw[cur].data))

ResolvedRange(h) ==
  IF hdr[h].data_range.set
  THEN hdr[h].data_range
  ELSE LET all == UNION {Range(SliceFile(n)) : n \in Range(hdr[h].names)}
       IN  Bounds(Min(all), Max(all))

RECURSIVE ExpectedSamples(_, _, _, _)
\* the slices of names, in that order, each sample v mapped to
\* (v - lo) / (hi - lo) * top, cast to an unsigned integer
ExpectedSamples(names, lo, hi, top) ==
  IF names = <<>> THEN <<>>
  ELSE [i \in 1..Len(SliceFile(Head(names))) |->
          ((SliceFile(Head(names))[i] - lo) * top) \div (hi - lo)]
       \o ExpectedSamples(Tail(names), lo, hi, top)

\* C4: once main has taken up a header that declares a data range [lo, hi]
\* and bit depth b (no volume existing, or force set), the output volume is
\* the concatenation, in sorted slice order, of the slices' samples mapped by
\* v -> (v - lo) / (hi - lo) * (2^b - 1).
AssembledVolume ==
  \A h \in handled :
    (hdr[h].data_range.set /\ nsiOutcome # "AlreadyExists")
      => /\ nsiOut[h].exists
         /\ nsiOut[h].data
              = ExpectedSamples(Sorted(hdr[h].names), hdr[h].data_range.lower,
                                hdr[h].data_range.upper, 2 ^ hdr[h].bit_depth - 1)

\* C5: an iteration of main on a header whose volume file exists, force not
\* set, ends as AlreadyExists; the volume file is unchanged, no slice is
\* rescaled or appended and no DAT file or range record is written.
NoOverwriteWithoutForce ==
  [][(/\ nsihdr_iter
      /\ nsiOut[Head(nsiQueue)].exists
      /\ force = FALSE)
       => /\ nsiOutcome' = "AlreadyExists"
          /\ nsiPc' = "exited"
          /\ nsiOut' = nsiOut
          /\ nsiDat' = nsiDat
          /\ nsiRange' = nsiRange
          /\ used' = used]_vars

\* main has met an existing volume without force
NoOverwriteWitness ==
  /\ nsiOutcome = "AlreadyExists"
  /\ nsiPc = "exited"
  /\ force = FALSE
  /\ \E h \in handled : nsiOut[h] = OldVolume

\* C9: range isolation.  For every header main has taken up (and not left
\* as AlreadyExists), the slices were rescaled from that header's own
\* resolved range to [0, 2^bit_depth - 1] of that header, and the range
\* record holds that resolved range.
RangeIsolation ==
  \A h \in handled :
    nsiOutcome # "AlreadyExists"
      => /\ used[h].set
         /\ used[h].initial = ResolvedRange(h)
         /\ used[h].target = Bounds(0, 2 ^ hdr[h].bit_depth - 1)
         /\ nsiRange[h] = write_metadata_range(ResolvedRange(h))

====
